---- MODULE Spec2Model ----
(***************************************************************************)
(* Habit-tracker bot: the document store operations of DatabaseHandler     *)
(* (src/database.py), the extraction step of InputHandler                  *)
(* (src/inputHandler.py) and the /start and voice handlers of src/bot.py.  *)
(*                                                                         *)
(* Every pymongo call is one atomic step of the store; a method that makes *)
(* several calls is a sequence of steps that other handlers' steps may     *)
(* interleave with, and every call may raise.  One bot process runs a      *)
(* log_activity call without suspension (the calls are not awaited); the   *)
(* interleavings are those of several bot processes, or of a bot and a     *)
(* reader, on one database.                                                *)
(* A handler is a sequence of steps, one for each awaited call.            *)
(* Time is counted in hours; a timedelta's .days is hours \div 24.         *)
(* A "HH:MM" string is the pair of its two numbers.                        *)
(***************************************************************************)
EXTENDS Integers, Sequences, FiniteSets, TLC

\* ---- bounds ----
MaxActivities == 2    \* documents the activities collection comes to hold
MaxClock == 48        \* last hour the clock reaches
MaxHabits == 2        \* documents the habits collection comes to hold
MaxQueryDocs == 2     \* activity documents a queried collection holds

\* ---- input domains ----
Uids == {1, 2}
\* user.username or user.first_name, as Telegram reports it for each user
Names == [uid \in Uids |-> IF uid = 1 THEN {"ann"} ELSE {"bob", "cy"}]
Handlers == {1, 2}
\* the users whose messages each handler task gets: handler tasks and users
\* are interchangeable, so one task serving one user loses no interleaving
Senders == [h \in Handlers |-> IF h = 1 THEN Uids ELSE {1}]
TickHours == 24
HoursPerDay == 24
None == -1            \* Python None for a timestamp

Sentiments == {"positive", "neutral", "negative"}

\* The items an extractor reply can hold (what eval() of the reply yields).
GoodItem == [time |-> <<7, 15>>, activity |-> "reading", duration |-> 45, sentiment |-> "positive"]
BadValueItem == [time |-> <<25, 61>>, activity |-> "nap", duration |-> -5, sentiment |-> "ecstatic"]
MissingKeyItem == [time |-> <<6, 30>>, activity |-> "breakfast", sentiment |-> "positive"]

\* What the chat completion returns: text eval() cannot evaluate, or a list.
Unparseable == <<[text |-> "no expression"]>>
ExtractorReplies ==
    {<<>>, <<GoodItem>>, <<GoodItem, BadValueItem>>, <<GoodItem, MissingKeyItem>>, Unparseable}

\* ---- documents ----
DefaultSettings == [timezone |-> "UTC", daily_reminder |-> FALSE, reminder_time |-> "09:00"]
ZeroStats == [total_activities |-> 0, total_duration |-> 0, streak |-> 0, last_activity |-> None]

NewUserDoc(telegram_id, username, now) ==
    [telegram_id |-> telegram_id, username |-> username, created_at |-> now,
     settings |-> DefaultSettings, stats |-> ZeroStats]

\* activity_doc of log_activity, without its created_at, which nothing reads
ActivityDoc(user_id, a) ==
    [user_id |-> user_id, activity |-> a.activity, timestamp |-> a.time,
     duration |-> a.duration, sentiment |-> a.sentiment]

\* ProcessedActivity(time=a["time"], ...): a missing key raises KeyError,
\* any value is accepted as it is.
HasAllKeys(item) == {"time", "activity", "sentiment", "duration"} \subseteq DOMAIN item
ToProcessedActivity(item) ==
    [time |-> item.time, activity |-> item.activity,
     sentiment |-> item.sentiment, duration |-> item.duration]

\* ---- store operations on the users collection ----
\* find_one({"telegram_id": uid}): index of the first match, 0 when none.
FindUser(us, uid) ==
    IF \E i \in 1..Len(us) : us[i].telegram_id = uid
    THEN CHOOSE i \in 1..Len(us) :
            /\ us[i].telegram_id = uid
            /\ \A j \in 1..(i - 1) : us[j].telegram_id # uid
    ELSE 0

\* the upsert with "$set" in place of "$setOnInsert": an existing profile is
\* overwritten with the defaults
UpsertSet(us, uid, doc) ==
    LET i == FindUser(us, uid) IN
    IF i = 0 THEN Append(us, doc) ELSE [us EXCEPT ![i] = doc]

\* find_one_and_update(filter, {"$setOnInsert": doc}, upsert=True)
UpsertSetOnInsert(us, uid, doc) ==
    IF FindUser(us, uid) = 0 THEN Append(us, doc) ELSE us

\* the stats update with total_duration under "$set" in place of "$inc"
IncStatsSetDuration(us, uid, d, now) ==
    LET i == FindUser(us, uid) IN
    IF i = 0 THEN us
    ELSE [us EXCEPT ![i].stats.total_activities = @ + 1,
                    ![i].stats.total_duration = d,
                    ![i].stats.last_activity = now]

\* update_one(filter, {"$inc": {total_activities: 1, total_duration: d},
\*                     "$set": {last_activity: now}})
IncStats(us, uid, d, now) ==
    LET i == FindUser(us, uid) IN
    IF i = 0 THEN us
    ELSE [us EXCEPT ![i].stats.total_activities = @ + 1,
                    ![i].stats.total_duration = @ + d,
                    ![i].stats.last_activity = now]

\* the streak "$inc" as an update of every profile (no filter on the user)
IncStreakAll(us, uid) ==
    [i \in 1..Len(us) |-> [us[i] EXCEPT !.stats.streak = @ + 1]]

\* update_one(filter, {"$inc": {"stats.streak": 1}})
IncStreak(us, uid) ==
    LET i == FindUser(us, uid) IN
    IF i = 0 THEN us ELSE [us EXCEPT ![i].stats.streak = @ + 1]

\* update_one(filter, {"$set": {"stats.streak": 1}})
ResetStreak(us, uid) ==
    LET i == FindUser(us, uid) IN
    IF i = 0 THEN us ELSE [us EXCEPT ![i].stats.streak = 1]

\* (current_time - last_activity).days
Days(current_time, last_activity) == (current_time - last_activity) \div HoursPerDay

\* the branch _update_streak takes for the document it read
StreakBranch(doc, current_time) ==
    IF doc.stats.last_activity # None /\ Days(current_time, doc.stats.last_activity) <= 1
    THEN "inc" ELSE "reset"

\* ---- state ----
VARIABLES
    users,        \* the users collection, in insertion order
    activities,   \* the activities collection, in insertion order
    clock,        \* datetime.utcnow(), in hours
    hpc,          \* per handler task: position in bot.start or bot.handle_voice
    huser,        \* per handler task: update.effective_user.id
    hbatch,       \* handle_voice: the activities list of the message
    hidx,         \* handle_voice: 1-based position of the for loop
    hins,         \* log_activity: result of insert_one, the place of the new document (0: none)
    hbranch,      \* _update_streak: the branch chosen after find_one
    hentry,       \* log_activity: the user's stats as stored when the call began
    hdoc,         \* start: the document create_user returned
    herr,         \* per handler task: the call whose exception ended the handler
    reply,        \* per handler task: the reply sent
    counted,      \* places of the activity documents whose stats update matched a profile
    voice_file,   \* 'voice_message.ogg': the user whose audio the file holds (0: no file)
    hkind,        \* per handler task: the kind of the update it handles
    hsrc,         \* handle_voice: the user whose audio was transcribed (0: none)
    habits,       \* the habits collection, in insertion order
    hhabit,       \* add_or_update_habit: the habit document of the call
    qres          \* what the last get_user_activities call returned

vars == <<users, activities, clock, hpc, huser, hbatch, hidx, hins, hbranch, hentry,
          hdoc, herr, reply, counted, voice_file, hkind, hsrc, habits, hhabit, qres>>

hvars == <<hpc, huser, hbatch, hidx, hins, hbranch, hentry, hdoc, herr, reply, hkind, hsrc,
           hhabit>>

\* what the handlers of bot.py never touch
svars == <<habits, hhabit, qres>>

NoEntry == [found |-> FALSE, streak |-> 0, last_activity |-> None]

EntryOf(us, uid) ==
    LET i == FindUser(us, uid) IN
    IF i = 0 THEN NoEntry
    ELSE [found |-> TRUE, streak |-> us[i].stats.streak, last_activity |-> us[i].stats.last_activity]

NoDoc == [telegram_id |-> 0]

NoHabit == [user_id |-> 0]

NoQuery == [user_id |-> 0, start_date |-> None, end_date |-> None, limit |-> 0, places |-> {}]

Init ==
    /\ users = <<>>
    /\ activities = <<>>
    /\ clock = 0
    /\ hpc = [h \in Handlers |-> "idle"]
    /\ huser = [h \in Handlers |-> 1]
    /\ hbatch = [h \in Handlers |-> <<>>]
    /\ hidx = [h \in Handlers |-> 1]
    /\ hins = [h \in Handlers |-> 0]
    /\ hbranch = [h \in Handlers |-> "none"]
    /\ hentry = [h \in Handlers |-> NoEntry]
    /\ hdoc = [h \in Handlers |-> NoDoc]
    /\ herr = [h \in Handlers |-> "none"]
    /\ reply = [h \in Handlers |-> "none"]
    /\ counted = {}
    /\ voice_file = 0
    /\ hkind = [h \in Handlers |-> "none"]
    /\ hsrc = [h \in Handlers |-> 0]
    /\ habits = <<>>
    /\ hhabit = [h \in Handlers |-> NoHabit]
    /\ qres = NoQuery

\* no handler is running
AtRest ==
    /\ hpc = [h \in Handlers |-> "idle"]
    /\ huser = [h \in Handlers |-> 1]
    /\ hbatch = [h \in Handlers |-> <<>>]
    /\ hidx = [h \in Handlers |-> 1]
    /\ hins = [h \in Handlers |-> 0]
    /\ hbranch = [h \in Handlers |-> "none"]
    /\ hentry = [h \in Handlers |-> NoEntry]
    /\ hdoc = [h \in Handlers |-> NoDoc]
    /\ herr = [h \in Handlers |-> "none"]
    /\ reply = [h \in Handlers |-> "none"]
    /\ hkind = [h \in Handlers |-> "none"]
    /\ hsrc = [h \in Handlers |-> 0]
    /\ hhabit = [h \in Handlers |-> NoHabit]

InCall(h) == hpc[h] \in {"log_update", "streak_find", "streak_update"}

\* A handler that sent its reply returns without another await: no step of
\* another task comes between its reply and its return.
Replied == \E h \in Handlers : hpc[h] = "done"

\* documents the running handlers have still to insert
RECURSIVE Pending(_)
Pending(H) ==
    IF H = {} THEN 0
    ELSE LET h == CHOOSE x \in H : TRUE IN
         Pending(H \ {h}) +
         (IF hpc[h] = "log_insert" THEN Len(hbatch[h]) - hidx[h] + 1
          ELSE IF InCall(h) THEN Len(hbatch[h]) - hidx[h]
          ELSE 0)

\* Time passes between messages: a message is handled within a time that is
\* negligible against TickHours.
Tick ==
    /\ clock + TickHours <= MaxClock
    /\ \A h \in Handlers : hpc[h] = "idle"
    /\ clock' = clock + TickHours
    /\ UNCHANGED <<users, activities, hvars, counted, voice_file, habits, qres>>

\* bot.start: create_user, then the welcome reply.  An exception of
\* create_user is not caught by start: no reply is sent.
Start(h, uid, name, ok) ==
    /\ hpc[h] = "idle"
    /\ ~Replied
    /\ hpc' = [hpc EXCEPT ![h] = "done"]
    /\ huser' = [huser EXCEPT ![h] = uid]
    /\ hkind' = [hkind EXCEPT ![h] = "start"]
    /\ IF ok
       THEN /\ users' = UpsertSetOnInsert(users, uid, NewUserDoc(uid, name, clock))
            /\ hdoc' = [hdoc EXCEPT ![h] = users'[FindUser(users', uid)]]
            /\ reply' = [reply EXCEPT ![h] = "welcome"]
            /\ UNCHANGED herr
       ELSE /\ herr' = [herr EXCEPT ![h] = "create_user"]
            /\ UNCHANGED <<users, hdoc, reply>>
    /\ UNCHANGED <<activities, clock, hbatch, hidx, hins, hbranch, hentry, counted,
                   voice_file, hsrc, svars>>

\* InputHandler.process_message on the reply of the chat completion: eval()
\* raises on text that is no expression, the list comprehension raises on an
\* item without one of the four keys; no value is checked.
ParseFails(content) == \E i \in 1..Len(content) : ~HasAllKeys(content[i])

process_message(content) == [i \in 1..Len(content) |-> ToProcessedActivity(content[i])]

\* the except clause answering while the handler goes on to the streak
ReplyErrorGoOn(h, stage) ==
    /\ herr' = [herr EXCEPT ![h] = stage]
    /\ reply' = [reply EXCEPT ![h] = "error"]
    /\ hpc' = [hpc EXCEPT ![h] = "streak_find"]

\* the except clause without its reply_text
ReplyErrorSilent(h, stage) ==
    /\ herr' = [herr EXCEPT ![h] = stage]
    /\ hpc' = [hpc EXCEPT ![h] = "done"]
    /\ UNCHANGED reply

\* handle_voice, lines 103-104: the except clause sends the error reply,
\* which names the exception, and the handler ends
ReplyError(h, stage) ==
    /\ herr' = [herr EXCEPT ![h] = stage]
    /\ reply' = [reply EXCEPT ![h] = "error"]
    /\ hpc' = [hpc EXCEPT ![h] = "done"]

\* handle_voice, lines 100-101: the formatted list is sent and the handler ends
Respond(h) ==
    /\ reply' = [reply EXCEPT ![h] = "activities"]
    /\ hpc' = [hpc EXCEPT ![h] = "done"]
    /\ UNCHANGED herr

\* bot.handle_voice, lines 83-84: get_file and download_to_drive, which
\* writes the audio of the message to the one path all handlers use
VoiceDownload(h, uid, ok) ==
    /\ hpc[h] = "idle"
    /\ ~Replied
    /\ huser' = [huser EXCEPT ![h] = uid]
    /\ hkind' = [hkind EXCEPT ![h] = "voice"]
    /\ IF ok
       THEN /\ voice_file' = uid
            /\ hpc' = [hpc EXCEPT ![h] = "downloaded"]
            /\ UNCHANGED <<herr, reply>>
       ELSE /\ ReplyError(h, "download")
            /\ UNCHANGED voice_file
    /\ UNCHANGED <<users, activities, clock, hbatch, hidx, hins, hbranch, hentry, hdoc,
                   counted, hsrc, svars>>

\* handle_voice line 87: handle_voice_message.  transcribe_audio opens the
\* path and sends what the file holds to the transcription; process_message
\* is called on the transcript.  stage names the call that raises ("none":
\* neither); content is the reply of the chat completion.
VoiceProcess(h, stage, content) ==
    /\ hpc[h] = "downloaded"
    /\ ~Replied
    /\ IF stage = "transcribe"
       THEN /\ ReplyError(h, "transcribe")
            /\ UNCHANGED <<hsrc, hbatch>>
       ELSE /\ hsrc' = [hsrc EXCEPT ![h] = voice_file]
            /\ IF stage = "extract" \/ ParseFails(content)
               THEN /\ ReplyError(h, "extract")
                    /\ UNCHANGED hbatch
               ELSE /\ Len(activities) + Pending(Handlers) + Len(content) <= MaxActivities
                    /\ hbatch' = [hbatch EXCEPT ![h] = process_message(content)]
                    /\ IF Len(content) = 0
                       THEN Respond(h)
                       ELSE /\ hpc' = [hpc EXCEPT ![h] = "log_insert"]
                            /\ UNCHANGED <<herr, reply>>
    /\ UNCHANGED <<users, activities, clock, huser, hidx, hins, hbranch, hentry, hdoc,
                   counted, voice_file, hkind, svars>>

\* the calls of handle_voice_message that may raise
Stages == {"none", "transcribe", "extract"}

\* the exception swallowed and the record tried again
RaiseRetry(h) ==
    /\ hpc' = [hpc EXCEPT ![h] = "log_insert"]
    /\ UNCHANGED <<herr, reply>>

\* log_activity, lines 109-110: the exception of insert_one or update_one is
\* raised again and reaches the except clause of handle_voice
Raise(h) == ReplyError(h, "log")

\* the for loop staying on the record it has just logged
ReturnSame(h) ==
    /\ hentry' = [hentry EXCEPT ![h] = NoEntry]
    /\ hins' = [hins EXCEPT ![h] = 0]
    /\ UNCHANGED hidx
    /\ IF hidx[h] < Len(hbatch[h])
       THEN /\ hpc' = [hpc EXCEPT ![h] = "log_insert"]
            /\ UNCHANGED <<herr, reply>>
       ELSE Respond(h)

\* log_activity, line 107: the document is returned, and the for loop of
\* handle_voice goes on or ends
Return(h) ==
    /\ hentry' = [hentry EXCEPT ![h] = NoEntry]
    /\ hins' = [hins EXCEPT ![h] = 0]
    /\ hidx' = [hidx EXCEPT ![h] = @ + 1]
    /\ IF hidx[h] < Len(hbatch[h])
       THEN /\ hpc' = [hpc EXCEPT ![h] = "log_insert"]
            /\ UNCHANGED <<herr, reply>>
       ELSE Respond(h)

\* log_activity, line 88: insert_one(activity_doc)
LogInsert(h, ok) ==
    /\ hpc[h] = "log_insert"
    /\ ~Replied
    /\ hentry' = [hentry EXCEPT ![h] = EntryOf(users, huser[h])]
    /\ IF ok
       THEN /\ activities' = Append(activities, ActivityDoc(huser[h], hbatch[h][hidx[h]]))
            /\ hins' = [hins EXCEPT ![h] = Len(activities) + 1]
            /\ hpc' = [hpc EXCEPT ![h] = "log_update"]
            /\ UNCHANGED <<herr, reply>>
       ELSE /\ Raise(h)
            /\ UNCHANGED <<activities, hins>>
    /\ UNCHANGED <<users, clock, huser, hbatch, hidx, hbranch, hdoc, counted,
                   voice_file, hkind, hsrc, svars>>

\* log_activity, lines 91-102: update_one on the user's stats
LogUpdateStats(h, ok) ==
    /\ hpc[h] = "log_update"
    /\ ~Replied
    /\ IF ok
       THEN /\ users' = IncStats(users, huser[h], hbatch[h][hidx[h]].duration, clock)
            /\ counted' = IF FindUser(users, huser[h]) = 0 THEN counted ELSE counted \cup {hins[h]}
            /\ hpc' = [hpc EXCEPT ![h] = "streak_find"]
            /\ UNCHANGED <<herr, reply>>
       ELSE /\ Raise(h)
            /\ UNCHANGED <<users, counted>>
    /\ UNCHANGED <<activities, clock, huser, hbatch, hidx, hins, hbranch, hentry, hdoc,
                   voice_file, hkind, hsrc, svars>>

\* _update_streak, lines 148-157: find_one, then the choice of the branch.
\* No user, or an exception (printed, not raised): log_activity returns.
StreakFind(h, ok) ==
    /\ hpc[h] = "streak_find"
    /\ ~Replied
    /\ LET i == FindUser(users, huser[h]) IN
       IF ok /\ i # 0
       THEN /\ hbranch' = [hbranch EXCEPT ![h] = StreakBranch(users[i], clock)]
            /\ hpc' = [hpc EXCEPT ![h] = "streak_update"]
            /\ UNCHANGED <<hidx, hins, hentry, herr, reply>>
       ELSE /\ UNCHANGED hbranch
            /\ Return(h)
    /\ UNCHANGED <<users, activities, clock, huser, hbatch, hdoc, counted,
                   voice_file, hkind, hsrc, svars>>

\* _update_streak, lines 158-170: the update_one of the chosen branch; an
\* exception is printed and log_activity returns the document all the same.
StreakUpdate(h, ok) ==
    /\ hpc[h] = "streak_update"
    /\ ~Replied
    /\ users' = IF ~ok THEN users
                ELSE IF hbranch[h] = "inc" THEN IncStreak(users, huser[h])
                ELSE ResetStreak(users, huser[h])
    /\ hbranch' = [hbranch EXCEPT ![h] = "none"]
    /\ Return(h)
    /\ UNCHANGED <<activities, clock, huser, hbatch, hdoc, counted,
                   voice_file, hkind, hsrc, svars>>

\* the handler returns: its locals are gone
Finish(h) ==
    /\ hpc[h] = "done"
    /\ hpc' = [hpc EXCEPT ![h] = "idle"]
    /\ huser' = [huser EXCEPT ![h] = 1]
    /\ hbatch' = [hbatch EXCEPT ![h] = <<>>]
    /\ hidx' = [hidx EXCEPT ![h] = 1]
    /\ hins' = [hins EXCEPT ![h] = 0]
    /\ hbranch' = [hbranch EXCEPT ![h] = "none"]
    /\ hentry' = [hentry EXCEPT ![h] = NoEntry]
    /\ hdoc' = [hdoc EXCEPT ![h] = NoDoc]
    /\ herr' = [herr EXCEPT ![h] = "none"]
    /\ reply' = [reply EXCEPT ![h] = "none"]
    /\ hkind' = [hkind EXCEPT ![h] = "none"]
    /\ hsrc' = [hsrc EXCEPT ![h] = 0]
    /\ hhabit' = [hhabit EXCEPT ![h] = NoHabit]
    /\ UNCHANGED <<users, activities, clock, counted, voice_file, habits, qres>>

\* main, lines 144-149: the handlers the application registers, by the kind
\* of update ("none": no handler takes the update)
UpdateKinds == {"start", "help", "track", "stats", "voice", "text"}

HandlerFor(kind) ==
    CASE kind = "start" -> "start"
      [] kind = "help" -> "help_command"
      [] kind = "track" -> "track"
      [] kind = "voice" -> "handle_voice"
      [] OTHER -> "none"

\* help_command and track: a fixed text is sent, whoever the sender is
Command(h, kind) ==
    /\ hpc[h] = "idle"
    /\ ~Replied
    /\ HandlerFor(kind) \in {"help_command", "track"}
    /\ hpc' = [hpc EXCEPT ![h] = "done"]
    /\ hkind' = [hkind EXCEPT ![h] = kind]
    /\ reply' = [reply EXCEPT ![h] = kind]
    /\ UNCHANGED <<users, activities, clock, huser, hbatch, hidx, hins, hbranch, hentry,
                   hdoc, herr, counted, voice_file, hsrc, svars>>

\* an update no registered handler takes: the application drops it
Unhandled(h, kind) ==
    /\ hpc[h] = "idle"
    /\ ~Replied
    /\ HandlerFor(kind) = "none"
    /\ hpc' = [hpc EXCEPT ![h] = "done"]
    /\ hkind' = [hkind EXCEPT ![h] = kind]
    /\ UNCHANGED <<users, activities, clock, huser, hbatch, hidx, hins, hbranch, hentry,
                   hdoc, herr, reply, counted, voice_file, hsrc, svars>>

Next ==
    \/ Tick
    \/ \E h \in Handlers, ok \in BOOLEAN : \E uid \in Senders[h] : \E name \in Names[uid] :
          Start(h, uid, name, ok)
    \/ \E h \in Handlers, ok \in BOOLEAN : \E uid \in Senders[h] : VoiceDownload(h, uid, ok)
    \/ \E h \in Handlers, stage \in Stages, content \in ExtractorReplies :
          VoiceProcess(h, stage, content)
    \/ \E h \in Handlers, ok \in BOOLEAN : LogInsert(h, ok)
    \/ \E h \in Handlers, ok \in BOOLEAN : LogUpdateStats(h, ok)
    \/ \E h \in Handlers, ok \in BOOLEAN : StreakFind(h, ok)
    \/ \E h \in Handlers, ok \in BOOLEAN : StreakUpdate(h, ok)
    \/ \E h \in Handlers : Finish(h)

Spec == Init /\ [][Next]_vars

TypeOK ==
    /\ \A i \in 1..Len(users) : users[i].telegram_id \in Uids
    /\ \A i \in 1..Len(activities) : activities[i].user_id \in Uids
    /\ Len(activities) <= MaxActivities
    /\ clock \in 0..MaxClock
    /\ counted \subseteq 1..Len(activities)

\* The application taking updates of every kind: what main registers decides
\* which handler runs.  The updates without effect on the store (help,
\* track, and those no handler takes) are left out of Spec.
DispatchNext ==
    \/ Tick
    \/ \E h \in Handlers, ok \in BOOLEAN : \E uid \in Senders[h] : \E name \in Names[uid] :
          Start(h, uid, name, ok)
    \/ \E h \in Handlers, kind \in UpdateKinds : Command(h, kind)
    \/ \E h \in Handlers, kind \in UpdateKinds : Unhandled(h, kind)
    \/ \E h \in Handlers, ok \in BOOLEAN : \E uid \in Senders[h] : VoiceDownload(h, uid, ok)
    \/ \E h \in Handlers, stage \in Stages : VoiceProcess(h, stage, <<>>)
    \/ \E h \in Handlers : Finish(h)

DispatchSpec == Init /\ [][DispatchNext]_vars

\* ---- the habits collection ----
HabitNames == {"run"}
Frequencies == {"daily", "weekly"}

\* habit of add_or_update_habit
HabitDoc(user_id, habit_name, target_frequency, target_duration, now) ==
    [user_id |-> user_id, name |-> habit_name, target_frequency |-> target_frequency,
     target_duration |-> target_duration, created_at |-> now, updated_at |-> now,
     streak |-> 0, total_completions |-> 0]

\* the first document the filter {"user_id", "name"} matches, 0 when none
FindHabit(hs, user_id, habit_name) ==
    IF \E i \in 1..Len(hs) : hs[i].user_id = user_id /\ hs[i].name = habit_name
    THEN CHOOSE i \in 1..Len(hs) :
            /\ hs[i].user_id = user_id /\ hs[i].name = habit_name
            /\ \A j \in 1..(i - 1) : ~(hs[j].user_id = user_id /\ hs[j].name = habit_name)
    ELSE 0

\* {"$set": habit}: every field of habit is written to the matched document
SetHabit(hs, i, habit) == [hs EXCEPT ![i] = habit]

\* a goal whose counters some completion tracking has advanced
SeededHabit ==
    [user_id |-> 1, name |-> "run", target_frequency |-> "weekly", target_duration |-> 30,
     created_at |-> 0, updated_at |-> 0, streak |-> 3, total_completions |-> 7]

\* inserts the running add_or_update_habit calls have still to make
RECURSIVE PendingHabits(_)
PendingHabits(H) ==
    IF H = {} THEN 0
    ELSE LET h == CHOOSE x \in H : TRUE IN
         PendingHabits(H \ {h}) + (IF hpc[h] = "habit_insert" THEN 1 ELSE 0)

\* add_or_update_habit, lines 190-195: find_one_and_update with upsert.  The
\* update of a matched document is one step of the store.  The index on
\* (user_id, name) is not unique (lines 35-38), so when nothing matches the
\* store inserts without looking again: other calls come between the match
\* and the insert.
HabitUpsert(h, user_id, habit_name, target_frequency, target_duration) ==
    /\ hpc[h] = "idle"
    /\ ~Replied
    /\ huser' = [huser EXCEPT ![h] = user_id]
    /\ hkind' = [hkind EXCEPT ![h] = "habit"]
    /\ LET habit == HabitDoc(user_id, habit_name, target_frequency, target_duration, clock)
           i == FindHabit(habits, user_id, habit_name)
       IN  IF i # 0
           THEN /\ habits' = SetHabit(habits, i, habit)
                /\ hhabit' = [hhabit EXCEPT ![h] = habit]
                /\ hpc' = [hpc EXCEPT ![h] = "done"]
           ELSE /\ Len(habits) + PendingHabits(Handlers) < MaxHabits
                /\ hhabit' = [hhabit EXCEPT ![h] = habit]
                /\ hpc' = [hpc EXCEPT ![h] = "habit_insert"]
                /\ UNCHANGED habits
    /\ UNCHANGED <<users, activities, clock, hbatch, hidx, hins, hbranch, hentry, hdoc,
                   herr, reply, counted, voice_file, hsrc, qres>>

\* the insert of the upsert that matched nothing
HabitInsert(h) ==
    /\ hpc[h] = "habit_insert"
    /\ ~Replied
    /\ habits' = Append(habits, hhabit[h])
    /\ hpc' = [hpc EXCEPT ![h] = "done"]
    /\ UNCHANGED <<users, activities, clock, huser, hbatch, hidx, hins, hbranch, hentry,
                   hdoc, herr, reply, counted, voice_file, hkind, hsrc, hhabit, qres>>

\* The store operations of all three collections, each call returning.
StoreInit ==
    /\ users = <<>>
    /\ activities = <<>>
    /\ clock = 0
    /\ counted = {}
    /\ voice_file = 0
    /\ AtRest
    /\ habits \in {<<>>, <<SeededHabit>>}
    /\ qres = NoQuery

StoreNext ==
    \/ \E h \in Handlers : \E uid \in Senders[h] : \E name \in Names[uid] : Start(h, uid, name, TRUE)
    \/ \E h \in Handlers : \E uid \in Senders[h] : VoiceDownload(h, uid, TRUE)
    \/ \E h \in Handlers : VoiceProcess(h, "none", <<GoodItem>>)
    \/ \E h \in Handlers : LogInsert(h, TRUE)
    \/ \E h \in Handlers : LogUpdateStats(h, TRUE)
    \/ \E h \in Handlers : StreakFind(h, TRUE)
    \/ \E h \in Handlers : StreakUpdate(h, TRUE)
    \/ \E h \in Handlers, name \in HabitNames, f \in Frequencies :
          \E uid \in Senders[h] : HabitUpsert(h, uid, name, f, 30)
    \/ \E h \in Handlers : HabitInsert(h)
    \/ \E h \in Handlers : Finish(h)

StoreSpec == StoreInit /\ [][StoreNext]_vars

\* ---- get_user_activities ----
\* a "HH:MM" timestamp as the store orders it
TimeKey(t) == t[1] * 60 + t[2]

QueryTimes == {<<7, 0>>, <<7, 15>>, <<8, 0>>}

\* the documents the filter of get_user_activities matches (lines 118-125)
Matched(acts, user_id, start_date, end_date) ==
    {i \in 1..Len(acts) :
        /\ acts[i].user_id = user_id
        /\ start_date # None => TimeKey(acts[i].timestamp) >= start_date
        /\ end_date # None => TimeKey(acts[i].timestamp) <= end_date}

\* find(query).sort("timestamp", DESCENDING).limit(limit): the sets of
\* places the call may return (documents of one timestamp come in any order)
get_user_activities(acts, user_id, start_date, end_date, limit) ==
    LET m == Matched(acts, user_id, start_date, end_date) IN
    {S \in SUBSET m :
        /\ Cardinality(S) = IF Cardinality(m) < limit THEN Cardinality(m) ELSE limit
        /\ \A i \in S, j \in m \ S :
              TimeKey(acts[i].timestamp) >= TimeKey(acts[j].timestamp)}

QueryDocs ==
    {ActivityDoc(uid, [GoodItem EXCEPT !.time = t]) : uid \in Uids, t \in QueryTimes}

QueryInit ==
    /\ users = <<>>
    /\ activities \in UNION {[1..n -> QueryDocs] : n \in 0..MaxQueryDocs}
    /\ clock = 0
    /\ counted = {}
    /\ voice_file = 0
    /\ AtRest
    /\ habits = <<>>
    /\ qres = NoQuery

QueryBounds == {None} \cup {TimeKey(t) : t \in QueryTimes}

Query(user_id, start_date, end_date, limit) ==
    /\ \E S \in get_user_activities(activities, user_id, start_date, end_date, limit) :
          qres' = [user_id |-> user_id, start_date |-> start_date, end_date |-> end_date,
                   limit |-> limit, places |-> S]
    /\ UNCHANGED <<users, activities, clock, hvars, counted, voice_file, habits>>

QueryNext ==
    \E uid \in Uids, start_date \in QueryBounds, end_date \in QueryBounds, limit \in {1, 10} :
        Query(uid, start_date, end_date, limit)

QuerySpec == QueryInit /\ [][QueryNext]_vars

\* ---- what the claims speak of ----
StatsOf(us, uid) == us[FindUser(us, uid)].stats

\* places of the persisted activity records of a user
DocsOf(uid) == {i \in 1..Len(activities) : activities[i].user_id = uid}

RECURSIVE SumDuration(_)
SumDuration(S) ==
    IF S = {} THEN 0
    ELSE LET i == CHOOSE x \in S : TRUE IN activities[i].duration + SumDuration(S \ {i})

\* no log_activity call is between its first and its last store operation
AllCallsCompleted == \A h \in Handlers : ~InCall(h)

\* the step in which the log_activity call of h returns its document
Returns(h) ==
    /\ hpc[h] \in {"streak_find", "streak_update"}
    /\ hpc'[h] \in {"log_insert", "done"}

\* a valid 24-hour HH:MM time
ValidTime(t) == t[1] \in 0..23 /\ t[2] \in 0..59

\* C1: once every create_user and log_activity call has completed, each
\* profile's total_activities is the number of persisted records of that
\* user and total_duration the sum of their durations.
C1_StatsMatchRecords ==
    AllCallsCompleted =>
        \A i \in 1..Len(users) :
            LET docs == DocsOf(users[i].telegram_id) IN
            /\ users[i].stats.total_activities = Cardinality(docs)
            /\ users[i].stats.total_duration = SumDuration(docs)

\* C2: a log_activity call for an existing user whose last_activity, as
\* stored before the call, is more than one day old leaves the streak at 1.
\* Stated for the calls whose streak update took effect and that no other
\* call's streak update came between.
C2_StreakReset ==
    [][\A h \in Handlers :
          (/\ Returns(h)
           /\ hentry[h].found
           /\ hentry[h].last_activity # None
           /\ clock - hentry[h].last_activity > HoursPerDay
           /\ StatsOf(users, huser[h]).streak = hentry[h].streak
           /\ StatsOf(users', huser[h]).streak # hentry[h].streak)
          => StatsOf(users', huser[h]).streak = 1]_vars

\* C3: a voice message whose log_activity calls all returned a persisted
\* record was logged for a user who has a profile (a call for a user
\* without one fails).
C3_UserNotFound ==
    \A h \in Handlers :
        (hpc[h] = "done" /\ reply[h] = "activities" /\ hbatch[h] # <<>>)
        => FindUser(users, huser[h]) # 0

\* the effects the running log_activity call of h has applied so far
Effects(h) ==
    (IF hins[h] # 0 THEN {"insert"} ELSE {}) \cup
    (IF hpc[h] \in {"streak_find", "streak_update"} THEN {"stats"} ELSE {})

\* C4: log_activity is all or nothing: no state shows a call with only some
\* of its effects applied, and a call that failed has applied none.
C4_AtomicLogActivity ==
    \A h \in Handlers :
        /\ Effects(h) = {}
        /\ (hpc[h] = "done" /\ herr[h] = "log") => hins[h] = 0

\* C5: under every interleaving of the store operations of log_activity
\* calls, each call whose stats update matched the profile is counted
\* exactly once: total_activities is the number of those calls and
\* total_duration the sum of their durations.
C5_NoLostUpdates ==
    \A i \in 1..Len(users) :
        LET docs == DocsOf(users[i].telegram_id) \cap counted IN
        /\ users[i].stats.total_activities = Cardinality(docs)
        /\ users[i].stats.total_duration = SumDuration(docs)

\* two calls for one user overlap, and both are counted
C5_Witness ==
    /\ \A h \in Handlers : hpc[h] \in {"streak_find", "streak_update"} /\ huser[h] = 1
    /\ FindUser(users, 1) # 0
    /\ StatsOf(users, 1).total_activities = 2
    /\ StatsOf(users, 1).total_duration = 2 * GoodItem.duration

\* C6: every persisted activity record has a valid HH:MM time, a duration
\* >= 0 and a sentiment of the closed set.
C6_NoMalformedRecord ==
    \A i \in 1..Len(activities) :
        /\ ValidTime(activities[i].timestamp)
        /\ activities[i].duration >= 0
        /\ activities[i].sentiment \in Sentiments

\* a step of bot.start
StartStep(h) ==
    /\ hpc[h] = "idle"
    /\ hpc'[h] = "done"
    /\ reply'[h] = "welcome" \/ herr'[h] = "create_user"

\* C7: create_user for an id that has a profile returns that profile and
\* leaves the users collection as it was; no id ever has two profiles.
C7_CreateUserIdempotent ==
    [][\A h \in Handlers :
          StartStep(h) =>
              LET i == FindUser(users, huser'[h]) IN
              /\ i # 0 => /\ users' = users
                          /\ reply'[h] = "welcome" => hdoc'[h] = users[i]
              /\ \A j, k \in 1..Len(users') :
                    users'[j].telegram_id = users'[k].telegram_id => j = k]_vars

\* create_user returned a profile created earlier, with its accumulated stats
C7_Witness ==
    \E h \in Handlers :
        /\ hpc[h] = "done"
        /\ reply[h] = "welcome"
        /\ hdoc[h].created_at < clock
        /\ hdoc[h].stats.total_activities >= 1
        /\ hdoc[h] = users[FindUser(users, huser[h])]

\* C8: a log_activity call for an existing user whose last_activity, as
\* stored before the call, is non-null and at most one day old leaves the
\* streak one above its value before the call.  Stated for the calls no
\* other call's streak update came between.
C8_StreakIncrement ==
    [][\A h \in Handlers :
          (/\ Returns(h)
           /\ hentry[h].found
           /\ hentry[h].last_activity # None
           /\ clock - hentry[h].last_activity <= HoursPerDay
           /\ StatsOf(users, huser[h]).streak = hentry[h].streak)
          => StatsOf(users', huser[h]).streak = hentry[h].streak + 1]_vars

\* C9: the first completed log_activity call for a freshly created user
\* (streak 0, last_activity null) leaves the streak at 1.
C9_FirstActivity ==
    [][\A h \in Handlers :
          (/\ Returns(h)
           /\ hentry[h].found
           /\ hentry[h].streak = 0
           /\ hentry[h].last_activity = None
           /\ StatsOf(users, huser[h]).streak = 0)
          => StatsOf(users', huser[h]).streak = 1]_vars

\* the step in which a store call of the log_activity call of h raises
LogFails(h) ==
    \/ hpc[h] = "log_insert" /\ hpc'[h] \notin {"log_insert", "log_update"}
    \/ hpc[h] = "log_update" /\ hpc'[h] \notin {"log_update", "streak_find"}

\* C10: when the log_activity call for record k fails, the store keeps what
\* the calls before it wrote (records and stats), no call is made for a
\* later record, and the user gets the error reply.
C10_PartialIngestion ==
    [][\A h \in Handlers :
          /\ LogFails(h) =>
                /\ activities' = activities
                /\ users' = users
                /\ hpc'[h] = "done"
                /\ reply'[h] = "error"
                /\ herr'[h] = "log"
                /\ hidx'[h] = hidx[h]
          /\ (hpc[h] = "done" /\ hpc'[h] # "done") =>
                /\ hpc'[h] = "idle"
                /\ activities' = activities
                /\ users' = users]_vars

\* the second record of a message failed; the first is persisted and counted
C10_Witness ==
    \E h \in Handlers :
        /\ hpc[h] = "done"
        /\ herr[h] = "log"
        /\ reply[h] = "error"
        /\ hidx[h] = 2
        /\ Len(hbatch[h]) = 2
        /\ \E i \in DocsOf(huser[h]) \cap counted :
              activities[i] = ActivityDoc(huser[h], hbatch[h][1])
        /\ FindUser(users, huser[h]) # 0
        /\ StatsOf(users, huser[h]).total_activities >= 1

\* the step in which handle_voice_message of h raises
PipelineFails(h) ==
    /\ hpc[h] = "downloaded"
    /\ herr'[h] # herr[h]

\* C11: a failure of the transcription or of the extraction ends the voice
\* handler before ingestion: the message yields no record, the store is as
\* it was, and the handler only returns; after a failed transcription no
\* transcript exists for an extraction.
C11_AbortBeforeIngestion ==
    [][\A h \in Handlers :
          /\ PipelineFails(h) =>
                /\ herr'[h] \in {"transcribe", "extract"}
                /\ hpc'[h] = "done"
                /\ hbatch'[h] = <<>>
                /\ activities' = activities
                /\ users' = users
                /\ herr'[h] = "transcribe" => hsrc'[h] = 0
          /\ (hpc[h] = "done" /\ herr[h] \in {"transcribe", "extract"} /\ hpc'[h] # "done") =>
                /\ hpc'[h] = "idle"
                /\ activities' = activities
                /\ users' = users]_vars

\* an extraction failed for a user who has a profile with logged activities
C11_Witness ==
    \E h \in Handlers :
        /\ hpc[h] = "done"
        /\ hkind[h] = "voice"
        /\ herr[h] = "extract"
        /\ hbatch[h] = <<>>
        /\ hsrc[h] # 0
        /\ FindUser(users, huser[h]) # 0
        /\ StatsOf(users, huser[h]).total_activities >= 1

\* the step in which insert_one of the log_activity call of h returns
Inserts(h) == hpc[h] = "log_insert" /\ hpc'[h] = "log_update"

\* C12: the records of one message are logged in extraction order, one
\* call after the other: a call inserts the record the loop stands on, no
\* call starts while one of the same message is in progress, and the loop
\* moves on by one record, and only when a call has returned.
C12_SequentialInOrder ==
    [][\A h \in Handlers :
          /\ Inserts(h) =>
                /\ hins[h] = 0
                /\ activities' = Append(activities, ActivityDoc(huser[h], hbatch[h][hidx[h]]))
                /\ \A k \in 1..(hidx[h] - 1) :
                      \E i \in 1..Len(activities) :
                          activities[i] = ActivityDoc(huser[h], hbatch[h][k])
          /\ Returns(h) => hidx'[h] = hidx[h] + 1
          /\ (hidx'[h] # hidx[h] /\ hpc'[h] # "idle") => Returns(h)]_vars

\* both records of a message are persisted, the first before the second
C12_Witness ==
    \E h \in Handlers :
        /\ hpc[h] = "done"
        /\ reply[h] = "activities"
        /\ Len(hbatch[h]) = 2
        /\ hbatch[h][1] # hbatch[h][2]
        /\ \E i, j \in 1..Len(activities) :
              /\ i < j
              /\ activities[i] = ActivityDoc(huser[h], hbatch[h][1])
              /\ activities[j] = ActivityDoc(huser[h], hbatch[h][2])

\* C13: a plain text message and a /stats request are taken by a handler
\* and answered: text with the activity list, /stats with the stats reply.
C13_InboundDispatch ==
    \A h \in Handlers :
        (hpc[h] = "done" /\ hkind[h] \in {"text", "stats"}) =>
            /\ HandlerFor(hkind[h]) # "none"
            /\ reply[h] # "none"

\* C14: a voice handler sends exactly one reply: it ends with the activity
\* list when nothing failed and with the error reply, which names the
\* failure, otherwise; a reply once sent is not followed by another.
C14_ExactlyOneReply ==
    [][\A h \in Handlers :
          /\ (hkind'[h] = "voice" /\ hpc[h] # "done" /\ hpc'[h] = "done") =>
                /\ reply[h] = "none"
                /\ \/ reply'[h] = "activities" /\ herr'[h] = "none"
                   \/ reply'[h] = "error" /\ herr'[h] \in {"download", "transcribe", "extract", "log"}
          /\ (hkind[h] = "voice" /\ hpc[h] # "done") => reply[h] = "none"
          /\ (hkind[h] = "voice" /\ hpc[h] = "done" /\ reply'[h] # reply[h]) =>
                hpc'[h] = "idle"]_vars

\* a voice message whose second record failed was answered with the error
C14_Witness ==
    \E h \in Handlers :
        /\ hpc[h] = "done"
        /\ hkind[h] = "voice"
        /\ reply[h] = "error"
        /\ herr[h] = "log"
        /\ hins[h] # 0

\* C19: the records a voice handler logs were extracted from the audio of
\* the user who sent the message.
C19_NoVoiceInterference ==
    \A h \in Handlers :
        (hkind[h] = "voice" /\ hins[h] # 0) => hsrc[h] = huser[h]

\* C20: every profile has 0 <= streak <= total_activities.
C20_StreakBounded ==
    \A i \in 1..Len(users) :
        /\ 0 <= users[i].stats.streak
        /\ users[i].stats.streak <= users[i].stats.total_activities

\* the step in which add_or_update_habit of h updates a goal it matched
UpdatesHabit(h) == hpc[h] = "idle" /\ hpc'[h] = "done" /\ hkind'[h] = "habit"

\* C16: add_or_update_habit on an existing goal replaces the target fields
\* and updated_at and leaves the goal's streak and total_completions as
\* they were stored.
C16_HabitCountersKept ==
    [][\A h \in Handlers :
          UpdatesHabit(h) =>
              \A i \in 1..Len(habits) :
                  /\ habits'[i].streak = habits[i].streak
                  /\ habits'[i].total_completions = habits[i].total_completions]_vars

\* C17: the habits collection holds at most one goal for each
\* (user_id, name).
C17_HabitUnique ==
    \A i, j \in 1..Len(habits) :
        (habits[i].user_id = habits[j].user_id /\ habits[i].name = habits[j].name) => i = j

\* the documents of a user: profiles, activity records, habit goals
OwnedBy(uid, us, acts, hs) ==
    <<SelectSeq(us, LAMBDA d : d.telegram_id = uid),
      SelectSeq(acts, LAMBDA d : d.user_id = uid),
      SelectSeq(hs, LAMBDA d : d.user_id = uid)>>

\* C18: a step of a store operation made for one user leaves the profile,
\* the activity records and the habit goals of every other user as they were.
C18_NoCrossUser ==
    [][\A h \in Handlers :
          hpc'[h] # hpc[h] =>
              \A uid \in Uids \ {huser'[h]} :
                  OwnedBy(uid, users', activities', habits') =
                      OwnedBy(uid, users, activities, habits)]_vars

\* a log_activity call for user 1 is in progress while user 2 has a
\* profile with a counted activity and a habit goal
C18_Witness ==
    /\ \E h \in Handlers : hpc[h] = "streak_update" /\ huser[h] = 1
    /\ FindUser(users, 1) # 0
    /\ FindUser(users, 2) # 0
    /\ StatsOf(users, 2).total_activities = 1
    /\ StatsOf(users, 2).streak = 1
    /\ FindHabit(habits, 2, "run") # 0

\* C15: get_user_activities with both bounds returns the user's records
\* with start <= timestamp < end (stated for the calls the limit does not
\* cut).
C15_HalfOpenWindow ==
    (/\ qres.user_id # 0
     /\ qres.start_date # None
     /\ qres.end_date # None
     /\ qres.start_date < qres.end_date
     /\ Cardinality(Matched(activities, qres.user_id, qres.start_date, qres.end_date))
            <= qres.limit)
    => qres.places =
          {i \in 1..Len(activities) :
              /\ activities[i].user_id = qres.user_id
              /\ qres.start_date <= TimeKey(activities[i].timestamp)
              /\ TimeKey(activities[i].timestamp) < qres.end_date}

====
